---- MODULE Spec2Model ----
(***************************************************************************)
(* Stochastic universal sampling as implemented by RandomChoice            *)
(* (src/src/lib.rs): random_choice_f64 / random_choice_f32 and             *)
(* random_choice_in_place_f64 / random_choice_in_place_f32.                *)
(*                                                                         *)
(* The four functions share one control flow and differ in the width of    *)
(* the floating-point arithmetic.  Floating-point values are modelled      *)
(* exactly: a finite non-negative binary floating-point number is a pair   *)
(* [m, e] standing for m * 2^e, m an arbitrary-size natural number, and    *)
(* every arithmetic operation computes the exact result and rounds it to   *)
(* the format's significand width, to nearest, ties to even (IEEE 754).    *)
(* Exponent range (overflow to infinity, subnormals) is not modelled: the  *)
(* values reached within the bounds stay far inside the normal range of    *)
(* both formats.                                                           *)
(***************************************************************************)
EXTENDS Integers, Sequences, FiniteSets

(***************************************************************************)
(* Natural numbers of arbitrary size: little-endian sequences of limbs     *)
(* in base Radix, without a most significant zero limb (zero is << >>).    *)
(* They carry the significands of f32 (24 bits) and f64 (53 bits) and the  *)
(* exact intermediate results of the arithmetic.                           *)
(***************************************************************************)
LimbBits == 15

Radix == 2^LimbBits

Limb(a, k) == IF k <= Len(a) THEN a[k] ELSE 0

RECURSIVE NatNorm(_)
NatNorm(a) ==
    IF a = <<>> THEN a
    ELSE IF a[Len(a)] = 0 THEN NatNorm(SubSeq(a, 1, Len(a) - 1))
    ELSE a

RECURSIVE NatFromInt(_)
NatFromInt(x) ==
    IF x = 0 THEN <<>> ELSE <<x % Radix>> \o NatFromInt(x \div Radix)

RECURSIVE NatAddC(_, _, _, _)
NatAddC(a, b, k, c) ==
    IF k > Len(a) /\ k > Len(b)
    THEN (IF c = 0 THEN <<>> ELSE <<c>>)
    ELSE LET s == Limb(a, k) + Limb(b, k) + c
         IN  <<s % Radix>> \o NatAddC(a, b, k + 1, s \div Radix)

NatAdd(a, b) == NatAddC(a, b, 1, 0)

RECURSIVE NatMulSmallC(_, _, _, _)
NatMulSmallC(a, f, k, c) ==
    IF k > Len(a)
    THEN (IF c = 0 THEN <<>> ELSE <<c>>)
    ELSE LET s == a[k] * f + c
         IN  <<s % Radix>> \o NatMulSmallC(a, f, k + 1, s \div Radix)

\* a * f for a limb-sized factor f (0 <= f < Radix)
NatMulSmall(a, f) == IF f = 0 THEN <<>> ELSE NatMulSmallC(a, f, 1, 0)

RECURSIVE NatMulAt(_, _, _)
NatMulAt(a, b, k) ==
    IF k > Len(b) THEN <<>>
    ELSE LET rest == NatMulAt(a, b, k + 1)
         IN  NatAdd(NatMulSmall(a, b[k]),
                    IF rest = <<>> THEN <<>> ELSE <<0>> \o rest)

NatMul(a, b) == NatMulAt(a, b, 1)

\* a divided by a limb-sized divisor d (0 < d < Radix): quotient and remainder
RECURSIVE NatDivSmallC(_, _, _, _)
NatDivSmallC(a, d, k, r) ==
    IF k = 0 THEN [q |-> <<>>, r |-> r]
    ELSE LET cur  == r * Radix + a[k]
             rest == NatDivSmallC(a, d, k - 1, cur % d)
         IN  [q |-> rest.q \o <<cur \div d>>, r |-> rest.r]

NatDivSmall(a, d) ==
    LET res == NatDivSmallC(a, d, Len(a), 0)
    IN  [q |-> NatNorm(res.q), r |-> res.r]

\* -1, 0, 1 as a < b, a = b, a > b
RECURSIVE NatCmpAt(_, _, _)
NatCmpAt(a, b, k) ==
    IF k = 0 THEN 0
    ELSE IF a[k] < b[k] THEN -1
    ELSE IF a[k] > b[k] THEN 1
    ELSE NatCmpAt(a, b, k - 1)

NatCmp(a, b) ==
    IF Len(a) < Len(b) THEN -1
    ELSE IF Len(a) > Len(b) THEN 1
    ELSE NatCmpAt(a, b, Len(a))

RECURSIVE IntBitLen(_)
IntBitLen(x) == IF x = 0 THEN 0 ELSE 1 + IntBitLen(x \div 2)

NatBitLen(a) ==
    IF a = <<>> THEN 0 ELSE LimbBits * (Len(a) - 1) + IntBitLen(a[Len(a)])

RECURSIVE Zeros(_)
Zeros(k) == IF k = 0 THEN <<>> ELSE <<0>> \o Zeros(k - 1)

\* a * 2^s
NatShl(a, s) ==
    IF a = <<>> THEN <<>>
    ELSE Zeros(s \div LimbBits) \o NatMulSmall(a, 2^(s % LimbBits))

\* floor(a / 2^s)
NatShr(a, s) ==
    IF s \div LimbBits >= Len(a) THEN <<>>
    ELSE NatDivSmall(SubSeq(a, s \div LimbBits + 1, Len(a)), 2^(s % LimbBits)).q

\* bit number idx of a (bit 0 is the least significant)
NatBit(a, idx) == (Limb(a, idx \div LimbBits + 1) \div 2^(idx % LimbBits)) % 2

\* some bit of a below bit number s is set
NatLowBits(a, s) ==
    \/ \E k \in 1..(s \div LimbBits) : Limb(a, k) # 0
    \/ Limb(a, s \div LimbBits + 1) % 2^(s % LimbBits) # 0

RECURSIVE IntTrailingZeros(_)
IntTrailingZeros(x) == IF x % 2 = 1 THEN 0 ELSE 1 + IntTrailingZeros(x \div 2)

\* the number of trailing zero bits of a /= 0, counted from limb k on
RECURSIVE NatTrailingZeros(_, _)
NatTrailingZeros(a, k) ==
    IF a[k] = 0 THEN LimbBits + NatTrailingZeros(a, k + 1)
    ELSE IntTrailingZeros(a[k])

\* 2^bits - 1
NatOnes(bits) ==
    [k \in 1..(bits \div LimbBits) |-> Radix - 1]
        \o (IF bits % LimbBits = 0 THEN <<>> ELSE <<2^(bits % LimbBits) - 1>>)

(***************************************************************************)
(* Floating point.  [m, e] is m * 2^e, kept in the normal form m odd (or   *)
(* m = 0 and e = 0) so that equal values are equal records.                *)
(***************************************************************************)
F64Digits == 53

F32Digits == 24

Normal(m, e) ==
    IF m = <<>> THEN [m |-> <<>>, e |-> 0]
    ELSE LET tz == NatTrailingZeros(m, 1)
         IN  [m |-> NatShr(m, tz), e |-> e + tz]

FZero == [m |-> <<>>, e |-> 0]

\* usize as f64 / as f32, and the integral weights of the inputs: exact
FromInt(x) == Normal(NatFromInt(x), 0)

\* The exact value m * 2^e (plus, when sticky, a positive amount below one
\* unit of m) rounded to P significant bits, to nearest, ties to even.
Round(P, m, e, sticky) ==
    LET len == NatBitLen(m)
    IN  IF len <= P THEN Normal(m, e)
        ELSE LET s    == len - P
                 q    == NatShr(m, s)
                 half == NatBit(m, s - 1) = 1
                 rest == sticky \/ NatLowBits(m, s - 1)
                 up   == half /\ (rest \/ NatBit(q, 0) = 1)
             IN  Normal(IF up THEN NatAdd(q, <<1>>) ELSE q, e + s)

Min(x, y) == IF x < y THEN x ELSE y

\* a + b
FAdd(P, a, b) ==
    LET e0 == Min(a.e, b.e)
    IN  Round(P, NatAdd(NatShl(a.m, a.e - e0), NatShl(b.m, b.e - e0)), e0, FALSE)

\* a * b
FMul(P, a, b) == Round(P, NatMul(a.m, b.m), a.e + b.e, FALSE)

\* a / (n as float) for a count 0 < n < Radix
FDivInt(P, a, n) ==
    LET k  == P + LimbBits + 2
        qr == NatDivSmall(NatShl(a.m, k), n)
    IN  Round(P, qr.q, a.e - k, qr.r # 0)

\* a < b
FLess(a, b) ==
    LET e0 == Min(a.e, b.e)
    IN  NatCmp(NatShl(a.m, a.e - e0), NatShl(b.m, b.e - e0)) < 0

(***************************************************************************)
(* Bounds of the inputs.                                                   *)
(***************************************************************************)
MaxLen == 5

MaxN == 6

\* the weights a caller passes: small integral values (exact in both formats)
WeightValues == {0, 1, 3}

WeightSeqs == UNION {[1..len -> WeightValues] : len \in 0..MaxLen}

\* the samples a caller passes: [1, 2, ..., m]; the value tells the position
\* the sample had before the call
Original(m) == [x \in 1..m |-> x]

\* the lengths of samples tried with the weights w: none, as many as there
\* are weights, one more
SampleLens(w) == {0, Len(w), Len(w) + 1} \cap 0..MaxLen

\* thread_rng().next_f64() / next_f32(): a value of [0, 1).  The generator is
\* outside the repository; the draws modelled are 0, 1/2 and 1 - 2^-(P-1),
\* the largest value a generator of P-1 random bits yields.
Uniform(P) ==
    { FZero, [m |-> <<1>>, e |-> -1], [m |-> NatOnes(P - 1), e |-> -(P - 1)] }

(***************************************************************************)
(* State: the running call.  j is the walk index (the variable i of        *)
(* random_choice, j of random_choice_in_place), k the output slot (the     *)
(* counter of the for loop).  picked is a history variable: the index of   *)
(* samples read for each slot filled so far.  draws counts the values      *)
(* taken from the random source.                                           *)
(***************************************************************************)
VARIABLES pc, fun, digits, samples, weights, n, spoke_gap, spin,
          accumulated_weights, current_spoke, j, k, choices, picked, draws

vars == <<pc, fun, digits, samples, weights, n, spoke_gap, spin,
          accumulated_weights, current_spoke, j, k, choices, picked, draws>>

Init ==
    /\ pc = "idle"
    /\ fun = "none"
    /\ digits = 0
    /\ samples = <<>>
    /\ weights = <<>>
    /\ n = 0
    /\ spoke_gap = FZero
    /\ spin = FZero
    /\ accumulated_weights = FZero
    /\ current_spoke = FZero
    /\ j = 0
    /\ k = 0
    /\ choices = <<>>
    /\ picked = <<>>
    /\ draws = 0

\* weights.iter().fold(0.0, |acc, &i| acc + i)
RECURSIVE Fold(_, _, _, _)
Fold(P, w, idx, acc) ==
    IF idx > Len(w) THEN acc ELSE Fold(P, w, idx + 1, FAdd(P, acc, w[idx]))

\* the guard's early return: nothing is computed and nothing is drawn
EarlyReturn(f, P, s, w, cnt) ==
    /\ pc' = "returned"
    /\ fun' = f
    /\ digits' = P
    /\ samples' = s
    /\ weights' = w
    /\ n' = cnt
    /\ UNCHANGED <<spoke_gap, spin, accumulated_weights, current_spoke,
                   j, k, choices, picked, draws>>

\* a call that takes two values from the generator
NextDrawTwice(d) == d + 2

\* thread_rng().next_f64(): the generator hands out one more value
NextDraw(d) == d + 1

\* sum, spoke_gap, the one draw, spin, and the walk's initial state; reading
\* weights[0] panics on an empty weight sequence
Setup(f, P, s, w, cnt, u) ==
    LET sum == Fold(P, w, 1, FZero)
        gap == FDivInt(P, sum, cnt)
    IN  /\ fun' = f
        /\ digits' = P
        /\ samples' = s
        /\ weights' = w
        /\ n' = cnt
        /\ spoke_gap' = gap
        /\ draws' = NextDraw(draws)
        /\ spin' = FMul(P, u, gap)
        /\ j' = 0
        /\ IF Len(w) = 0
           THEN pc' = "panicked" /\ UNCHANGED accumulated_weights
           ELSE pc' = "walk" /\ accumulated_weights' = w[1]
        /\ current_spoke' = spin'
        /\ k' = 0
        /\ UNCHANGED <<choices, picked>>

\* the guard of random_choice with the emptiness test left out
GuardNoEmpty(w, cnt) == cnt = 0

\* weights.len() == 0 || n == 0
Guard(w, cnt) == Len(w) = 0 \/ cnt = 0

random_choice(P, s, w, cnt) ==
    IF Guard(w, cnt)
    THEN EarlyReturn("random_choice", P, s, w, cnt)
    ELSE \E u \in Uniform(P) : Setup("random_choice", P, s, w, cnt, u)

\* weights.len() < 2
GuardInPlace(w) == Len(w) < 2

random_choice_in_place(P, s, w) ==
    IF GuardInPlace(w)
    THEN EarlyReturn("random_choice_in_place", P, s, w, 0)
    ELSE \E u \in Uniform(P) :
            Setup("random_choice_in_place", P, s, w, Len(w), u)

random_choice_f64 ==
    /\ pc = "idle"
    /\ \E w \in WeightSeqs : \E m \in SampleLens(w) : \E cnt \in 0..MaxN :
          random_choice(F64Digits, Original(m), [x \in DOMAIN w |-> FromInt(w[x])], cnt)

random_choice_f32 ==
    /\ pc = "idle"
    /\ \E w \in WeightSeqs : \E m \in SampleLens(w) : \E cnt \in 0..MaxN :
          random_choice(F32Digits, Original(m), [x \in DOMAIN w |-> FromInt(w[x])], cnt)

random_choice_in_place_f64 ==
    /\ pc = "idle"
    /\ \E w \in WeightSeqs : \E m \in SampleLens(w) :
          random_choice_in_place(F64Digits, Original(m), [x \in DOMAIN w |-> FromInt(w[x])])

random_choice_in_place_f32 ==
    /\ pc = "idle"
    /\ \E w \in WeightSeqs : \E m \in SampleLens(w) :
          random_choice_in_place(F32Digits, Original(m), [x \in DOMAIN w |-> FromInt(w[x])])

\* the loop condition with <= in place of <
WalkCondLe == ~FLess(current_spoke, accumulated_weights)

\* while accumulated_weights < current_spoke
WalkCond == FLess(accumulated_weights, current_spoke)

\* the source slot taken one too far
SourceIndexOff == j + 1

\* the slot of samples that samples[j].clone() reads
SourceIndex == j

\* One iteration of the while loop: i += 1; accumulated_weights += weights[i].
\* Indexing weights past its end panics.
Advance ==
    /\ pc = "walk"
    /\ k < n
    /\ WalkCond
    /\ j' = j + 1
    /\ IF j + 1 < Len(weights)
       THEN /\ accumulated_weights' = FAdd(digits, accumulated_weights, weights[j + 2])
            /\ pc' = pc
       ELSE /\ pc' = "panicked"
            /\ UNCHANGED accumulated_weights
    /\ UNCHANGED <<fun, digits, samples, weights, n, spoke_gap, spin,
                   current_spoke, k, choices, picked, draws>>

\* choices.push(&samples[i]); current_spoke += spoke_gap;
Push ==
    /\ pc = "walk"
    /\ fun = "random_choice"
    /\ k < n
    /\ ~WalkCond
    /\ IF j < Len(samples)
       THEN /\ choices' = Append(choices, j)
            /\ picked' = Append(picked, j)
            /\ current_spoke' = FAdd(digits, current_spoke, spoke_gap)
            /\ k' = k + 1
            /\ pc' = pc
       ELSE /\ pc' = "panicked"
            /\ UNCHANGED <<choices, picked, current_spoke, k>>
    /\ UNCHANGED <<fun, digits, samples, weights, n, spoke_gap, spin,
                   accumulated_weights, j, draws>>

\* samples[i] = samples[j].clone(); current_spoke += spoke_gap;
Overwrite ==
    /\ pc = "walk"
    /\ fun = "random_choice_in_place"
    /\ k < n
    /\ ~WalkCond
    /\ IF SourceIndex < Len(samples) /\ k < Len(samples)
       THEN /\ samples' = [samples EXCEPT ![k + 1] = samples[SourceIndex + 1]]
            /\ picked' = Append(picked, SourceIndex)
            /\ current_spoke' = FAdd(digits, current_spoke, spoke_gap)
            /\ k' = k + 1
            /\ pc' = pc
       ELSE /\ pc' = "panicked"
            /\ UNCHANGED <<samples, picked, current_spoke, k>>
    /\ UNCHANGED <<fun, digits, weights, n, spoke_gap, spin,
                   accumulated_weights, j, choices, draws>>

\* the for loop is over: the function returns (choices, or nothing)
Return ==
    /\ pc = "walk"
    /\ k = n
    /\ pc' = "returned"
    /\ UNCHANGED <<fun, digits, samples, weights, n, spoke_gap, spin,
                   accumulated_weights, current_spoke, j, k, choices, picked, draws>>

(***************************************************************************)
(* Vocabulary of the properties.                                           *)
(***************************************************************************)
Entered == fun # "none"

Ended == pc \in {"returned", "panicked"}

\* the weights are non-negative by construction; their sum is positive
PositiveSum == \E x \in DOMAIN weights : weights[x] # FZero

\* a non-empty weight sequence of total weight zero
ZeroSum == weights # <<>> /\ \A x \in DOMAIN weights : weights[x] = FZero

\* the arguments of the running call are those its guard turns away:
\* empty weights or n = 0 (random_choice), fewer than two weights (in place)
GuardHeld ==
    IF fun = "random_choice"
    THEN Len(weights) = 0 \/ n = 0
    ELSE Len(weights) < 2

\* the integer an integral weight stands for
IntOf(f) == IF f.m = <<>> THEN 0 ELSE f.m[1] * 2^f.e

\* weights[0] + ... + weights[i], accumulated as the walk accumulates it
RECURSIVE CumFrom(_, _)
CumFrom(acc, idx) ==
    IF idx > Len(weights) THEN <<>>
    ELSE LET c == FAdd(digits, acc, weights[idx])
         IN  <<c>> \o CumFrom(c, idx + 1)

\* the spokes spin, spin + spoke_gap, ... of the first cnt slots, each
\* obtained from the one before by current_spoke += spoke_gap
RECURSIVE SpokesFrom(_, _)
SpokesFrom(s, cnt) ==
    IF cnt = 0 THEN <<>>
    ELSE <<s>> \o SpokesFrom(FAdd(digits, s, spoke_gap), cnt - 1)

\* how many of the slots filled so far selected index i
Count(i) == Cardinality({x \in DOMAIN picked : picked[x] = i})

(***************************************************************************)
(* C1.  random_choice with non-empty non-negative weights of positive      *)
(* sum, n > 0 and samples at least as long as weights returns exactly n    *)
(* references, each to a samples[i] with 0 <= i < weights.len().           *)
(***************************************************************************)
C1_Claim ==
    ( /\ fun = "random_choice"
      /\ Len(weights) > 0
      /\ n > 0
      /\ PositiveSum
      /\ Len(weights) <= Len(samples)
      /\ Ended )
    => /\ pc = "returned"
       /\ Len(choices) = n
       /\ \A x \in DOMAIN choices : choices[x] \in 0..(Len(weights) - 1)

(***************************************************************************)
(* C2.  random_choice_in_place on samples and weights of one length        *)
(* n >= 2 (positive sum) leaves in samples[k] the value samples[s_k] had   *)
(* before the call, s_k being the index the walk selects for slot k.       *)
(***************************************************************************)
C2_Claim ==
    ( /\ fun = "random_choice_in_place"
      /\ Len(samples) = Len(weights)
      /\ Len(weights) >= 2
      /\ PositiveSum
      /\ pc = "returned" )
    => \A x \in 1..n : samples[x] = Original(n)[picked[x] + 1]

(***************************************************************************)
(* C3.  random_choice called with empty weights or n = 0 returns an empty  *)
(* sequence at once, whatever the samples: it never enters the walk,       *)
(* indexes nothing and does not fail.                                      *)
(***************************************************************************)
C3_GuardReturnsEmpty ==
    (fun = "random_choice" /\ (Len(weights) = 0 \/ n = 0))
    => /\ pc = "returned"
       /\ choices = <<>>
       /\ picked = <<>>

\* random_choice([1], [], 5) has returned
C3_Witness ==
    /\ pc = "returned"
    /\ fun = "random_choice"
    /\ weights = <<>>
    /\ n = 5
    /\ samples # <<>>

(***************************************************************************)
(* C4.  random_choice on samples [1,2,3,4,5], weights [1,1,1,1,1], n = 5   *)
(* with the draw 0 (spin 0) selects the indices 0,1,2,3,4 in this order.   *)
(***************************************************************************)
C4_Claim ==
    ( /\ fun = "random_choice"
      /\ samples = <<1, 2, 3, 4, 5>>
      /\ weights = [x \in 1..5 |-> FromInt(1)]
      /\ n = 5
      /\ spin = FZero
      /\ pc = "returned" )
    => choices = <<0, 1, 2, 3, 4>>

(***************************************************************************)
(* C5.  Every call draws exactly one value from the random source,         *)
(* whatever its arguments.                                                 *)
(***************************************************************************)
C5_Claim == Ended => draws = 1

\* C5 as amended: a call that leaves through its guard draws nothing; every
\* other call draws exactly one value, before the walk starts.
C5_OneDrawUnlessGuarded ==
    Entered => draws = (IF GuardHeld THEN 0 ELSE 1)

\* a call that passed its guard, drew once and filled all its slots
C5_Witness ==
    /\ pc = "returned"
    /\ draws = 1
    /\ n >= 2
    /\ Len(picked) = n

(***************************************************************************)
(* C6.  In random_choice (positive sum) the index selected for slot k is   *)
(* the smallest i with weights[0] + ... + weights[i] >= the k-th spoke     *)
(* spin + k * spoke_gap, and the selected indices never decrease.  Sums    *)
(* and spokes are the values the call's own arithmetic gives them.         *)
(***************************************************************************)
C6_SmallestIndexReachingSpoke ==
    (fun = "random_choice" /\ PositiveSum /\ Ended)
    => LET cum    == CumFrom(FZero, 1)
           spokes == SpokesFrom(spin, Len(choices))
       IN  \A x \in DOMAIN choices :
              /\ choices[x] < Len(weights)
              /\ ~FLess(cum[choices[x] + 1], spokes[x])
              /\ \A i \in 0..(choices[x] - 1) : FLess(cum[i + 1], spokes[x])
              /\ x > 1 => choices[x - 1] <= choices[x]

\* a returned call with a positive spin whose walk advanced before the
\* first slot and again later
C6_Witness ==
    /\ pc = "returned"
    /\ fun = "random_choice"
    /\ PositiveSum
    /\ spin # FZero
    /\ n >= 3
    /\ Len(choices) = n
    /\ choices[1] > 0
    /\ choices[1] < choices[n]

(***************************************************************************)
(* C7.  In random_choice_in_place (positive sum) every write               *)
(* samples[i] = samples[j].clone() has j <= i.                             *)
(***************************************************************************)
C7_Claim ==
    (fun = "random_choice_in_place" /\ PositiveSum)
    => \A x \in DOMAIN picked : picked[x] <= x - 1

\* C7 as amended: at every write the source index is at most the last index
\* weights.len() - 1; it can be larger than the destination index.
C7_SourceWithinWeights ==
    (fun = "random_choice_in_place" /\ PositiveSum)
    => \A x \in DOMAIN picked : picked[x] <= Len(weights) - 1

\* a returned call whose first write read a slot ahead of the destination
\* and a later write one behind it
C7_Witness ==
    /\ fun = "random_choice_in_place"
    /\ PositiveSum
    /\ pc = "returned"
    /\ Len(picked) >= 2
    /\ picked[1] > 0
    /\ \E x \in DOMAIN picked : picked[x] < x - 1

(***************************************************************************)
(* C8.  In both functions, for weights of positive sum and n > 0, the      *)
(* walk index never exceeds weights.len() - 1: weights is never read past  *)
(* its end.                                                                *)
(***************************************************************************)
C8_Claim ==
    (Entered /\ ~GuardHeld /\ PositiveSum) => j <= Len(weights) - 1

(***************************************************************************)
(* C9.  With a non-empty weight sequence of total weight zero and n > 0    *)
(* the walk runs past the end of the sequence and the call ends in an      *)
(* out-of-bounds failure instead of returning.  (The code does not fail:   *)
(* spoke_gap, spin and every spoke are 0, accumulated_weights <            *)
(* current_spoke compares 0 < 0, the walk index stays 0 and the call       *)
(* returns samples[0] in every slot.)                                      *)
(***************************************************************************)
C9_Claim ==
    (Entered /\ ~GuardHeld /\ ZeroSum /\ Ended) => pc = "panicked"

(***************************************************************************)
(* C10.  In random_choice (positive sum S, n > 0) the number of slots      *)
(* that select index i is floor(n * weights[i] / S) or                     *)
(* ceil(n * weights[i] / S); an index of weight 0 is never selected.       *)
(***************************************************************************)
C10_Claim ==
    (fun = "random_choice" /\ PositiveSum /\ n > 0 /\ pc = "returned")
    => LET S == IntOf(Fold(digits, weights, 1, FZero))
       IN  \A i \in 0..(Len(weights) - 1) :
              LET nw == n * IntOf(weights[i + 1])
              IN  Count(i) \in {nw \div S, (nw + S - 1) \div S}

Next ==
    \/ random_choice_f64
    \/ random_choice_f32
    \/ random_choice_in_place_f64
    \/ random_choice_in_place_f32
    \/ Advance
    \/ Push
    \/ Overwrite
    \/ Return

Spec == Init /\ [][Next]_vars
====
